---- MODULE Spec2Model ----
(***************************************************************************)
(* Model of the heuristic extraction engine of backend/app/utils.py:       *)
(*   parse_cdr_text          (HeadingSegmenter)                            *)
(*   extract_key_values      (KeyValueExtractor)                           *)
(*   extract_apm_from_text   (SectionLocator + FieldReconciler)            *)
(*                                                                         *)
(* A Python str is a sequence of one-character strings, a dict is a        *)
(* sequence of <<key, value>> pairs in insertion order, and offsets are    *)
(* Python's (0-based) wherever the code computes with them.  The string    *)
(* and regular-expression helpers are written without deep recursion so    *)
(* that documents of a few hundred lines can be evaluated.                 *)
(***************************************************************************)
EXTENDS Integers, Sequences, FiniteSets, TLC

VARIABLES
    fn,             \* the function under call
    pc,             \* position in its body
    text,           \* argument text
    expected_keys,  \* argument expected_keys of extract_key_values (<<>> for None)
    t,              \* text with carriage returns removed
    positions,      \* parse_cdr_text: offset -> heading
    parsed,         \* parse_cdr_text: heading -> content
    lines,          \* extract_key_values: stripped non-empty lines
    ek_list,        \* extract_key_values: expected keys, longest first
    ek_norm,        \* extract_key_values: ek_list in lower case
    result,         \* extract_key_values: key -> value
    last_key,       \* extract_key_values: last assigned key
    i,              \* extract_key_values: index of the line being processed
    m_end,          \* extract_apm_from_text: m.end() of the heading match, -1 for no match
    apm_lines,      \* extract_apm_from_text: lines after the heading match
    n,              \* extract_apm_from_text: index into apm_lines
    take,           \* extract_apm_from_text: collected lines
    blank_count,    \* extract_apm_from_text: current run of blank lines
    block,          \* extract_apm_from_text: selected block (None before selection)
    kv,             \* extract_apm_from_text: extract_key_values(block, expected_keys)
    final,          \* extract_apm_from_text: projected output
    ret             \* returned dict (None until the call returns)

vars == <<fn, pc, text, expected_keys, t, positions, parsed, lines, ek_list, ek_norm,
          result, last_key, i, m_end, apm_lines, n, take, blank_count, block, kv, final, ret>>

(***************************************************************************)
(* Characters and character classes                                        *)
(***************************************************************************)
UpperSeq ==
    <<"A", "B", "C", "D", "E", "F", "G", "H", "I", "J", "K", "L", "M", "N", "O", "P", "Q", "R",
     "S", "T", "U", "V", "W", "X", "Y", "Z">>

LowerSeq ==
    <<"a", "b", "c", "d", "e", "f", "g", "h", "i", "j", "k", "l", "m", "n", "o", "p", "q", "r",
     "s", "t", "u", "v", "w", "x", "y", "z">>

DigitSeq ==
    <<"0", "1", "2", "3", "4", "5", "6", "7", "8", "9">>

None == <<"None">>

Whitespace == {" ", "\t", "\n", "\r"}

IsSpace(c) == c \in Whitespace

Upper == {UpperSeq[k] : k \in 1..Len(UpperSeq)}

Letters == Upper \cup {LowerSeq[k] : k \in 1..Len(LowerSeq)}

Digits == {DigitSeq[k] : k \in 1..Len(DigitSeq)}

LowerMap == [c \in Upper |-> LowerSeq[CHOOSE k \in 1..Len(UpperSeq) : UpperSeq[k] = c]]

LowerChar(c) == IF c \in Upper THEN LowerMap[c] ELSE c

IsAlpha(c) == c \in Letters

\* \w
IsWord(c) == c \in Letters \cup Digits \cup {"_"}

\* [\w.-]
IsEmailChar(c) == IsWord(c) \/ c \in {".", "-"}

(***************************************************************************)
(* str and list operations                                                 *)
(***************************************************************************)
Min(S) == CHOOSE x \in S : \A y \in S : x <= y

Max(S) == 0 - Min({0 - x : x \in S})

RECURSIVE FlattenRange(_, _, _)
FlattenRange(ss, lo, hi) ==
    IF lo > hi THEN <<>>
    ELSE IF lo = hi THEN ss[lo]
    ELSE LET mid == (lo + hi) \div 2
         IN  FlattenRange(ss, lo, mid) \o FlattenRange(ss, mid + 1, hi)

\* concatenation of a sequence of sequences
Flatten(ss) == FlattenRange(ss, 1, Len(ss))

\* s[a:b] for offsets a, b >= 0
Slice(s, a, b) ==
    LET hi == IF b < Len(s) THEN b ELSE Len(s)
    IN  IF a >= hi THEN <<>> ELSE SubSeq(s, a + 1, hi)

\* s.lower()
lower(s) == [k \in 1..Len(s) |-> LowerChar(s[k])]

\* s.strip()
strip(s) ==
    IF \A k \in 1..Len(s) : IsSpace(s[k]) THEN <<>>
    ELSE LET a == CHOOSE k \in 1..Len(s) : ~IsSpace(s[k]) /\ \A j \in 1..(k - 1) : IsSpace(s[j])
             b == CHOOSE k \in 1..Len(s) : ~IsSpace(s[k]) /\ \A j \in (k + 1)..Len(s) : IsSpace(s[j])
         IN  SubSeq(s, a, b)

\* re.sub(r"^[chars]+", "", s)
StripLeading(s, chars) ==
    LET idx == {k \in 1..Len(s) : s[k] \notin chars}
    IN  IF idx = {} THEN <<>> ELSE SubSeq(s, Min(idx), Len(s))

\* p occurs in s at the 1-based index k
MatchAt(s, p, k) ==
    /\ k >= 1
    /\ k + Len(p) - 1 <= Len(s)
    /\ \A j \in 1..Len(p) : s[k + j - 1] = p[j]

\* s.startswith(p)
startswith(s, p) == MatchAt(s, p, 1)

\* s.find(p): the offset of the first occurrence, -1 for none
find(s, p) ==
    LET hits == {k \in 1..(Len(s) - Len(p) + 1) : MatchAt(s, p, k)}
    IN  IF hits = {} THEN -1 ELSE Min(hits) - 1

\* p in s
contains(s, p) == \E k \in 1..(Len(s) - Len(p) + 1) : MatchAt(s, p, k)

\* s.replace(c, "") for a character c
RemoveChar(s, c) == SelectSeq(s, LAMBDA x : x # c)

\* s.replace(c, d) for characters c, d
ReplaceChar(s, c, d) == [k \in 1..Len(s) |-> IF s[k] = c THEN d ELSE s[k]]

\* re.sub(r"\s+", " ", s)
CollapseSpaces(s) ==
    Flatten([k \in 1..Len(s) |->
        IF ~IsSpace(s[k]) THEN <<s[k]>>
        ELSE IF k = 1 \/ ~IsSpace(s[k - 1]) THEN <<" ">> ELSE <<>>])

\* sep.join(ss)
join(sep, ss) ==
    Flatten([k \in 1..(2 * Len(ss) - 1) |-> IF k % 2 = 1 THEN ss[(k + 1) \div 2] ELSE sep])

\* a line boundary of str.splitlines ends at index k: "\n", "\r\n" or a lone "\r"
IsLineEnd(s, k) == s[k] = "\n" \/ (s[k] = "\r" /\ ~(k < Len(s) /\ s[k + 1] = "\n"))

\* s.splitlines()
splitlines(s) ==
    LET e == Flatten([k \in 1..Len(s) |-> IF IsLineEnd(s, k) THEN <<k>> ELSE <<>>])
        m == Len(e)
        first(k) == IF k = 1 THEN 1 ELSE e[k - 1] + 1
        last(k) == IF s[e[k]] = "\n" /\ e[k] > 1 /\ s[e[k] - 1] = "\r"
                   THEN e[k] - 2 ELSE e[k] - 1
        body == [k \in 1..m |-> SubSeq(s, first(k), last(k))]
        rest == IF m = 0 THEN 1 ELSE e[m] + 1
    IN  IF rest <= Len(s) THEN body \o <<SubSeq(s, rest, Len(s))>> ELSE body

\* [x for x in ss if pred]; keep[k] is pred for ss[k]
Filter(ss, keep) == Flatten([k \in 1..Len(ss) |-> IF keep[k] THEN <<ss[k]>> ELSE <<>>])

\* dict operations; d is a sequence of <<key, value>>
DictKeys(d) == [k \in 1..Len(d) |-> d[k][1]]

DictHas(d, key) == \E k \in 1..Len(d) : d[k][1] = key

DictGet(d, key) == d[CHOOSE k \in 1..Len(d) : d[k][1] = key][2]

\* d[key] = value
DictPut(d, key, value) ==
    IF DictHas(d, key)
    THEN [k \in 1..Len(d) |-> IF d[k][1] = key THEN <<key, value>> ELSE d[k]]
    ELSE Append(d, <<key, value>>)

(***************************************************************************)
(* parse_cdr_text                                                          *)
(***************************************************************************)
HEADING_KEYWORDS ==
    << <<"P", "u", "r", "p", "o", "s", "e">>,
       <<"A", "r", "c", "h", "i", "t", "e", "c", "t", "s">>,
       <<"A", "u", "d", "i", "e", "n", "c", "e">>,
       <<"C", "o", "n", "t", "e", "x", "t", " ", "a", "n", "d", " ", "P", "r", "o", "b", "l", "e", "m", " ", "S", "t", "a", "t", "e", "m", "e", "n", "t">>,
       <<"D", "e", "c", "i", "s", "i", "o", "n", "s">>,
       <<"D", "e", "c", "i", "s", "i", "o", "n", " ", "d", "r", "i", "v", "e", "r", "s">>,
       <<"D", "e", "c", "i", "s", "i", "o", "n">>,
       <<"H", "i", "g", "h", "-", "L", "e", "v", "e", "l", " ", "A", "W", "S", " ", "A", "r", "c", "h", "i", "t", "e", "c", "t", "u", "r", "e">>,
       <<"T", "e", "c", "h", "n", "i", "c", "a", "l", " ", "S", "p", "e", "c", "i", "f", "i", "c", "a", "t", "i", "o", "n", "s">>,
       <<"D", "a", "t", "a", "b", "a", "s", "e">>,
       <<"K", "e", "y", " ", "P", "o", "i", "n", "t", "s", " ", "/", " ", "N", "o", "t", "e", "s">>,
       <<"R", "a", "t", "i", "o", "n", "a", "l", "e">>,
       <<"A", "u", "t", "h", "o", "r", "s">>,
       <<"C", "o", "n", "t", "r", "i", "b", "u", "t", "o", "r", "s">> >>

Body ==
    <<"b", "o", "d", "y">>

\* positions[idx] = h
PosPut(p, idx, h) == [x \in (DOMAIN p) \cup {idx} |-> IF x = idx THEN h ELSE p[x]]

\* the loop over HEADING_KEYWORDS, after its first k iterations
RECURSIVE HeadingPositions(_, _)
HeadingPositions(tt, k) ==
    IF k = 0 THEN <<>>
    ELSE LET p == HeadingPositions(tt, k - 1)
             idx == find(tt, HEADING_KEYWORDS[k])
         IN  IF idx # -1 THEN PosPut(p, idx, HEADING_KEYWORDS[k]) ELSE p

\* a match of \n\s*\n starts at index k
ParagraphBreakAt(tt, k) ==
    /\ tt[k] = "\n"
    /\ \E j \in (k + 1)..Len(tt) : tt[j] = "\n" /\ \A x \in (k + 1)..(j - 1) : IsSpace(tt[x])

\* FirstParagraph with the whole-text fallback stripped like the paragraphs are
FirstParagraphStripped(tt) ==
    LET ns == {k \in 1..Len(tt) : ~IsSpace(tt[k])}
    IN  IF ns = {} THEN strip(tt)
        ELSE LET a == Min(ns)
                 br == {k \in a..Len(tt) : ParagraphBreakAt(tt, k)}
                 b == IF br = {} THEN Len(tt) + 1 ELSE Min(br)
             IN  strip(SubSeq(tt, a, b - 1))

\* paragraphs[0] if paragraphs else t, for
\* paragraphs = [p.strip() for p in re.split(r"\n\s*\n", t) if p.strip()]
FirstParagraph(tt) ==
    LET ns == {k \in 1..Len(tt) : ~IsSpace(tt[k])}
    IN  IF ns = {} THEN tt
        ELSE LET a == Min(ns)
                 br == {k \in a..Len(tt) : ParagraphBreakAt(tt, k)}
                 b == IF br = {} THEN Len(tt) + 1 ELSE Min(br)
             IN  strip(SubSeq(tt, a, b - 1))

\* the content stored for the heading found at offset pos
SectionContent(tt, p, pos) ==
    LET start == pos + Len(p[pos])
        next_positions == {q \in DOMAIN p : q > pos}
        end == IF next_positions # {} THEN Min(next_positions) ELSE Len(tt)
    IN  StripLeading(strip(Slice(tt, start, end)), {":", "-"} \cup Whitespace)

\* sorted(positions.keys())[k - 1]
SortedKey(p, k) == CHOOSE x \in DOMAIN p : Cardinality({y \in DOMAIN p : y < x}) = k - 1

cdrVars == <<t, positions, parsed>>

kvVars == <<lines, ek_list, ek_norm, result, last_key, i>>

apmVars == <<m_end, apm_lines, n, take, blank_count, block, kv, final>>

args == <<fn, text, expected_keys>>

\* if not text: return {}
CdrEmpty ==
    /\ fn = "parse_cdr_text" /\ pc = "start"
    /\ text = <<>>
    /\ ret' = <<>>
    /\ pc' = "done"
    /\ UNCHANGED <<args, cdrVars, kvVars, apmVars>>

\* t = text.replace('\r', ''), then the map of heading positions
CdrPositions ==
    /\ fn = "parse_cdr_text" /\ pc = "start"
    /\ text # <<>>
    /\ t' = RemoveChar(text, "\r")
    /\ positions' = HeadingPositions(t', Len(HEADING_KEYWORDS))
    /\ pc' = "positions"
    /\ UNCHANGED <<args, parsed, kvVars, apmVars, ret>>

\* if not positions: return {"body": ...}
CdrBody ==
    /\ fn = "parse_cdr_text" /\ pc = "positions"
    /\ DOMAIN positions = {}
    /\ ret' = << <<Body, FirstParagraph(t)>> >>
    /\ pc' = "done"
    /\ UNCHANGED <<args, cdrVars, kvVars, apmVars>>

\* one iteration of: for pos in sorted(positions.keys())
CdrSection ==
    /\ fn = "parse_cdr_text" /\ pc = "positions"
    /\ Len(parsed) < Cardinality(DOMAIN positions)
    /\ LET pos == SortedKey(positions, Len(parsed) + 1)
       IN  parsed' = DictPut(parsed, positions[pos], SectionContent(t, positions, pos))
    /\ UNCHANGED <<args, pc, t, positions, kvVars, apmVars, ret>>

\* return parsed
CdrReturn ==
    /\ fn = "parse_cdr_text" /\ pc = "positions"
    /\ DOMAIN positions # {}
    /\ Len(parsed) = Cardinality(DOMAIN positions)
    /\ ret' = parsed
    /\ pc' = "done"
    /\ UNCHANGED <<args, cdrVars, kvVars, apmVars>>

NextCdr == CdrEmpty \/ CdrPositions \/ CdrBody \/ CdrSection \/ CdrReturn

(***************************************************************************)
(* extract_key_values                                                      *)
(***************************************************************************)
\* lines = [l.strip() for l in text.splitlines() if l.strip()]
StrippedLines(s) ==
    LET ls == splitlines(s)
        stripped == [k \in 1..Len(ls) |-> strip(ls[k])]
    IN  Filter(stripped, [k \in 1..Len(ls) |-> stripped[k] # <<>>])

\* sorted(keys, key=lambda s: -len(s)): stable, longest first
SortedByLength(keys) ==
    LET before(a, b) == Len(keys[a]) > Len(keys[b]) \/ (Len(keys[a]) = Len(keys[b]) /\ a < b)
        rank(a) == Cardinality({b \in 1..Len(keys) : before(b, a)}) + 1
    IN  [p \in 1..Len(keys) |-> keys[CHOOSE a \in 1..Len(keys) : rank(a) = p]]

\* the expected keys tried in the order supplied
SortExpectedKeysUnsorted(keys) == keys

SortExpectedKeys(keys) == SortedByLength(keys)

\* re.sub(r"^[:\|\-\s]+", "", value)
StripSeparators(value) == StripLeading(value, {":", "|", "-"} \cup Whitespace)

\* value = line[len(orig_key):].strip() with the leading separators removed
ValueAfterKey(line, orig_key) == StripSeparators(strip(Slice(line, Len(orig_key), Len(line))))

\* rule 0: index in ek_list of the first key whose lowered form starts the line, 0 for none
PrefixKey(line, ekn) ==
    LET low == lower(line)
        hits == {k \in 1..Len(ekn) : startswith(low, ekn[k])}
    IN  IF hits = {} THEN 0 ELSE Min(hits)

\* line.split(c, 1) for a character c occurring in line
SplitFirst(line, c) ==
    LET k == Min({j \in 1..Len(line) : line[j] = c})
    IN  <<SubSeq(line, 1, k - 1), SubSeq(line, k + 1, Len(line))>>

\* line.rsplit(c, 1) for a character c occurring in line
SplitLast(line, c) ==
    LET k == Max({j \in 1..Len(line) : line[j] = c})
    IN  <<SubSeq(line, 1, k - 1), SubSeq(line, k + 1, Len(line))>>

\* a match of \s{2,}|\t starts at index k
GapAt(line, k) ==
    \/ IsSpace(line[k]) /\ k < Len(line) /\ IsSpace(line[k + 1])
    \/ line[k] = "\t"

\* re.search(r"\s{2,}|\t", line)
HasGap(line) == \E k \in 1..Len(line) : GapAt(line, k)

\* re.split(r"\s{2,}|\t", line, maxsplit=1) for a line with a gap
SplitGap(line) ==
    LET k == Min({j \in 1..Len(line) : GapAt(line, j)})
        wide == IsSpace(line[k]) /\ k < Len(line) /\ IsSpace(line[k + 1])
        after == {j \in k..Len(line) : ~IsSpace(line[j])}
        e == IF ~wide THEN k + 1 ELSE IF after = {} THEN Len(line) + 1 ELSE Min(after)
    IN  <<SubSeq(line, 1, k - 1), SubSeq(line, e, Len(line))>>

\* rule 3: index in ek_list of the first key that starts with the line's first word
\* and leaves a non-empty value, 0 for none
FirstWordKey(line, ekl, ekn) ==
    LET first_word == lower(SplitFirst(line, " ")[1])
        hits == {k \in 1..Len(ekl) :
                    /\ startswith(ekn[k], first_word)
                    /\ ValueAfterKey(line, ekl[k]) # <<>>}
    IN  IF hits = {} THEN 0 ELSE Min(hits)

\* re.search(r"@[^.\s]+$", prev)
EndsWithEmailFragment(prev) ==
    \E k \in 1..(Len(prev) - 1) :
        /\ prev[k] = "@"
        /\ \A j \in (k + 1)..Len(prev) : prev[j] # "." /\ ~IsSpace(prev[j])

\* re.match(r"^[\w.-]+\.[a-z]{2,}$", s, re.IGNORECASE)
IsBareDomain(s) ==
    \E k \in 2..(Len(s) - 2) :
        /\ s[k] = "."
        /\ \A j \in 1..(k - 1) : IsEmailChar(s[j])
        /\ \A j \in (k + 1)..Len(s) : IsAlpha(s[j])

\* rule 5 with every continuation joined by a space
StitchedValueSpaced(prev, line) ==
    IF prev = <<>> THEN line ELSE prev \o <<" ">> \o line

\* rule 5: the stitched value of the previous key
StitchedValue(prev, line) ==
    IF prev = <<>> THEN line
    ELSE IF contains(prev, <<"@">>) /\ EndsWithEmailFragment(prev) THEN prev \o line
    ELSE IF contains(prev, <<"@">>) /\ IsBareDomain(strip(line)) THEN prev \o strip(line)
    ELSE prev \o <<" ">> \o line

\* rule 5 applies: the line is appended to the previous key's value
CanStitch(res, lk, line) ==
    /\ lk # None /\ lk # <<>> /\ DictHas(res, lk)
    /\ LET prev == DictGet(res, lk)
       IN  \/ prev = <<>>
           \/ contains(prev, <<"@">>) /\ EndsWithEmailFragment(prev)
           \/ contains(prev, <<"@">>) /\ IsBareDomain(strip(line))
           \/ contains(line, <<"|">>)
           \/ ~contains(line, <<":">>) /\ ~HasGap(line)

\* str(k)
RECURSIVE Decimal(_)
Decimal(k) == IF k < 10 THEN <<DigitSeq[k + 1]>> ELSE Append(Decimal(k \div 10), DigitSeq[(k % 10) + 1])

TextBase ==
    <<"t", "e", "x", "t">>

\* the first of text_0, text_1, ... that is not a key of res
FreeTextKey(res) ==
    LET key(idx) == TextBase \o <<"_">> \o Decimal(idx)
    IN  key(Min({idx \in 0..Len(res) : ~DictHas(res, key(idx))}))

\* the rule of the cascade that handles the line
LineRule(res, lk, line, ekl, ekn) ==
    IF PrefixKey(line, ekn) # 0 THEN "prefix"
    ELSE IF contains(line, <<":">>) THEN "colon"
    ELSE IF HasGap(line) THEN "gap"
    ELSE IF contains(line, <<" ">>) /\ ekn # <<>> /\ FirstWordKey(line, ekl, ekn) # 0 THEN "first_word"
    ELSE IF contains(line, <<" ">>) /\ Len(SplitLast(line, " ")[1]) > 1 THEN "last_space"
    ELSE IF CanStitch(res, lk, line) THEN "stitch"
    ELSE "free_text"

\* the key the rule assigns to
LineKey(res, lk, line, ekl, ekn, rule) ==
    CASE rule = "prefix" -> ekl[PrefixKey(line, ekn)]
      [] rule = "colon" -> strip(SplitFirst(line, ":")[1])
      [] rule = "gap" -> strip(SplitGap(line)[1])
      [] rule = "first_word" -> ekl[FirstWordKey(line, ekl, ekn)]
      [] rule = "last_space" -> strip(SplitLast(line, " ")[1])
      [] rule = "stitch" -> lk
      [] rule = "free_text" -> FreeTextKey(res)

\* the value the rule stores under that key
LineValue(res, lk, line, ekl, ekn, rule) ==
    CASE rule = "prefix" -> ValueAfterKey(line, ekl[PrefixKey(line, ekn)])
      [] rule = "colon" -> strip(SplitFirst(line, ":")[2])
      [] rule = "gap" -> strip(SplitGap(line)[2])
      [] rule = "first_word" -> ValueAfterKey(line, ekl[FirstWordKey(line, ekl, ekn)])
      [] rule = "last_space" -> strip(SplitLast(line, " ")[2])
      [] rule = "stitch" -> StitchedValue(DictGet(res, lk), line)
      [] rule = "free_text" -> line

\* the frame of a call extract_key_values(s, keys) with s non-empty
KvEnter(s, keys) ==
    /\ lines' = StrippedLines(s)
    /\ ek_list' = IF keys # <<>> THEN SortExpectedKeys(keys) ELSE <<>>
    /\ ek_norm' = [k \in 1..Len(ek_list') |-> lower(ek_list'[k])]
    /\ result' = <<>>
    /\ last_key' = None
    /\ i' = 1

\* one iteration of "for line in lines", handled by the given rule
KvLine(rule) ==
    /\ i <= Len(lines)
    /\ LineRule(result, last_key, lines[i], ek_list, ek_norm) = rule
    /\ LET key == LineKey(result, last_key, lines[i], ek_list, ek_norm, rule)
       IN  /\ result' = DictPut(result, key,
                                LineValue(result, last_key, lines[i], ek_list, ek_norm, rule))
           /\ last_key' = key
    /\ i' = i + 1
    /\ UNCHANGED <<args, pc, cdrVars, lines, ek_list, ek_norm, apmVars, ret>>

\* if not text: return {}
KvEmpty ==
    /\ fn = "extract_key_values" /\ pc = "start"
    /\ text = <<>>
    /\ ret' = <<>>
    /\ pc' = "done"
    /\ UNCHANGED <<args, cdrVars, kvVars, apmVars>>

KvStart ==
    /\ fn = "extract_key_values" /\ pc = "start"
    /\ text # <<>>
    /\ KvEnter(text, expected_keys)
    /\ pc' = "kv"
    /\ UNCHANGED <<args, cdrVars, apmVars, ret>>

\* 0) an expected key starts the line
KvExpectedPrefix ==
    /\ pc = "kv"
    /\ KvLine("prefix")

\* 1) key: value
KvColon ==
    /\ pc = "kv"
    /\ KvLine("colon")

\* 2) multiple spaces or tabs separation
KvWideGap ==
    /\ pc = "kv"
    /\ KvLine("gap")

\* 3) the first word starts an expected key
KvFirstWord ==
    /\ pc = "kv"
    /\ KvLine("first_word")

\* 4) last-space split
KvLastSpace ==
    /\ pc = "kv"
    /\ KvLine("last_space")

\* 5) append the line to the previous key's value
KvStitch ==
    /\ pc = "kv"
    /\ KvLine("stitch")

\* fallback: append to a free-text key
KvFreeText ==
    /\ pc = "kv"
    /\ KvLine("free_text")

\* return result, to the caller of extract_key_values
KvReturn ==
    /\ pc = "kv"
    /\ i > Len(lines)
    /\ IF fn = "extract_key_values"
       THEN ret' = result /\ pc' = "done" /\ UNCHANGED kv
       ELSE kv' = result /\ pc' = "clean" /\ UNCHANGED ret
    /\ UNCHANGED <<args, cdrVars, kvVars, m_end, apm_lines, n, take, blank_count, block, final>>

\* the body of extract_key_values, whoever called it
KvBody ==
    \/ KvExpectedPrefix \/ KvColon \/ KvWideGap \/ KvFirstWord \/ KvLastSpace
    \/ KvStitch \/ KvFreeText
    \/ KvReturn

NextKv == KvEmpty \/ KvStart \/ KvBody


(***************************************************************************)
(* extract_apm_from_text                                                   *)
(***************************************************************************)
APM_EXPECTED_KEYS ==
    << <<"D", "e", "t", "a", "i", "l", "s">>,
       <<"S", "e", "r", "v", "i", "c", "e", " ", "o", "f", "f", "e", "r", "i", "n", "g">>,
       <<"A", "u", "t", "o", "m", "a", "t", "e", "d", " ", "S", "e", "r", "v", "i", "c", "e">>,
       <<"E", "n", "v", "i", "r", "o", "n", "m", "e", "n", "t">>,
       <<"A", "P", "M", " ", "N", "a", "m", "e">>,
       <<"A", "P", "M", " ", "I", "D">>,
       <<"M", "I", "O">>,
       <<"B", "u", "s", "i", "n", "e", "s", "s", " ", "U", "n", "i", "t">>,
       <<"A", "p", "p", "l", "i", "c", "a", "t", "i", "o", "n", " ", "O", "w", "n", "e", "r">>,
       <<"C", "o", "m", "p", "l", "i", "a", "n", "c", "e">>,
       <<"A", "p", "p", "l", "i", "c", "a", "t", "i", "o", "n", " ", "S", "e", "r", "v", "i", "c", "e", " ", "L", "e", "v", "e", "l", " ", "c", "o", "m", "m", "i", "t", "m", "e", "n", "t">>,
       <<"S", "t", "r", "a", "t", "e", "g", "i", "c", " ", "P", "r", "o", "j", "e", "c", "t", " ", "I", "D">>,
       <<"O", "p", "e", "r", "a", "t", "i", "o", "n", "a", "l", " ", "P", "r", "o", "j", "e", "c", "t", " ", "I", "D">>,
       <<"P", "M", "S", " ", "I", "D">>,
       <<"B", "a", "c", "k", "u", "p", " ", "P", "o", "l", "i", "c", "y">>,
       <<"N", "e", "t", "w", "o", "r", "k", " ", "Z", "o", "n", "e">>,
       <<"P", "a", "t", "c", "h", "i", "n", "g", " ", "W", "a", "v", "e">> >>

W_Application ==
    <<"a", "p", "p", "l", "i", "c", "a", "t", "i", "o", "n">>
W_Portfolio ==
    <<"p", "o", "r", "t", "f", "o", "l", "i", "o">>
W_Management ==
    <<"m", "a", "n", "a", "g", "e", "m", "e", "n", "t">>
W_Details ==
    <<"d", "e", "t", "a", "i", "l", "s">>
W_Owner ==
    <<"o", "w", "n", "e", "r">>
ApplicationOwner ==
    <<"a", "p", "p", "l", "i", "c", "a", "t", "i", "o", "n", "o", "w", "n", "e", "r">>
HttpScheme ==
    <<"h", "t", "t", "p", ":", "/", "/">>
HttpsScheme ==
    <<"h", "t", "t", "p", "s", ":", "/", "/">>

\* if len(take) > 200: break
MaxTake == 200

\* context = lines[i : i + 10 + 1]
ContextLines == 10

\* max_lines_after: int = 20
MaxLinesAfter == 20

\* the end of a maximal run of \s* starting at index k
SkipSpaces(s, k) == Min({j \in k..(Len(s) + 1) : j = Len(s) + 1 \/ ~IsSpace(s[j])})

\* the index after a match of the words, separated by \s*, starting at index k of
\* the lowered string low; 0 for no match
RECURSIVE WordsEnd(_, _, _, _)
WordsEnd(low, words, w, k) ==
    IF w > Len(words) THEN k
    ELSE LET p == IF w = 1 THEN k ELSE SkipSpaces(low, k)
         IN  IF MatchAt(low, words[w], p) THEN WordsEnd(low, words, w + 1, p + Len(words[w]))
             ELSE 0

\* heading_regex.search(t): m.end(), -1 for no match
HeadingMatchEnd(tt) ==
    LET low == lower(tt)
        words == <<W_Application, W_Portfolio, W_Management, W_Details>>
        hits == {k \in 1..Len(tt) : WordsEnd(low, words, 1, k) # 0}
    IN  IF hits = {} THEN -1 ELSE WordsEnd(low, words, 1, Min(hits)) - 1

\* not ln.strip()
IsBlank(ln) == strip(ln) = <<>>

\* not block
Falsy(b) == b = None \/ b = <<>>

\* candidates of step 2: each line containing an expected key, with its context, once
\* for every expected key it contains
Candidates(tt, keys) ==
    LET ls == splitlines(tt)
        low == [e \in 1..Len(keys) |-> lower(keys[e])]
        hits == [k \in 1..Len(ls) |->
                    LET lk == lower(ls[k])
                    IN  Cardinality({e \in 1..Len(keys) : contains(lk, low[e])})]
        context(k) == SubSeq(ls, k, IF k + ContextLines <= Len(ls) THEN k + ContextLines ELSE Len(ls))
    IN  Flatten([k \in 1..Len(ls) |-> Flatten([c \in 1..hits[k] |-> context(k)])])

\* block after step 2: if not block, the joined candidates when there are any
KeywordBlock(b, tt, keys) ==
    LET candidates == Candidates(tt, keys)
    IN  IF Falsy(b) /\ candidates # <<>> THEN join(<<"\n">>, candidates) ELSE b

\* a match of https?://\S+ starts at index k
UrlAt(s, k) ==
    \/ MatchAt(s, HttpScheme, k) /\ k + 7 <= Len(s) /\ ~IsSpace(s[k + 7])
    \/ MatchAt(s, HttpsScheme, k) /\ k + 8 <= Len(s) /\ ~IsSpace(s[k + 8])

\* re.sub(r"https?://\S+", "", s): a match runs from its start to the next whitespace
StripUrls(s) ==
    LET starts == {p \in 1..Len(s) : UrlAt(s, p)}
        InUrl(k) == \E p \in starts : p <= k /\ \A j \in p..k : ~IsSpace(s[j])
    IN  IF starts = {} THEN s
        ELSE Flatten([k \in 1..Len(s) |-> IF InUrl(k) THEN <<>> ELSE <<s[k]>>])

\* re.sub(r"\s+", " ", k).strip()
CleanKey(k) == strip(CollapseSpaces(k))

\* v.replace("|", ","), whitespace runs collapsed, stripped
CleanValue(v) == strip(CollapseSpaces(ReplaceChar(v, "|", ",")))

\* cleaned, after the first k items of kv
RECURSIVE Cleaned(_, _)
Cleaned(d, k) ==
    IF k = 0 THEN <<>>
    ELSE DictPut(Cleaned(d, k - 1), CleanKey(d[k][1]), CleanValue(d[k][2]))

\* re.sub(r"[^a-z0-9]", "", s.lower())
normalize_key(s) ==
    SelectSeq(lower(s), LAMBDA c : c \in Digits \/ (IsAlpha(c) /\ c \notin Upper))

\* final: the expected keys in order, each with the value of the last cleaned key
\* that normalizes to it, or ""
Project(cl, keys) ==
    [e \in 1..Len(keys) |->
        LET same == {k \in 1..Len(cl) : normalize_key(cl[k][1]) = normalize_key(keys[e])}
        IN  IF same = {} THEN <<keys[e], <<>>>> ELSE <<keys[e], cl[Max(same)][2]>>]

\* email_re.search(s).group(0) for email_re = [\w\.-]+@[\w\.-]+\.[a-zA-Z]{2,}; "" for no match
FirstEmail(s) ==
    LET localStart(j) == Min({a \in 1..j : \A x \in a..(j - 1) : IsEmailChar(s[x])})
        dots(j) == {k \in (j + 2)..(Len(s) - 2) :
                       /\ s[k] = "."
                       /\ \A x \in (j + 1)..(k - 1) : IsEmailChar(s[x])
                       /\ IsAlpha(s[k + 1]) /\ IsAlpha(s[k + 2])}
        ats == {j \in 2..Len(s) : s[j] = "@" /\ localStart(j) < j /\ dots(j) # {}}
    IN  IF ats = {} THEN <<>>
        ELSE LET j == Min(ats)
                 k == Max(dots(j))
                 e == Min({x \in (k + 2)..Len(s) : x = Len(s) \/ ~IsAlpha(s[x + 1])})
             IN  SubSeq(s, localStart(j), e)

\* re.search(r"application\s*owner", ln, re.IGNORECASE)
MentionsOwner(ln) ==
    LET low == lower(ln)
    IN  \E k \in 1..Len(ln) : WordsEnd(low, <<W_Application, W_Owner>>, 1, k) # 0

\* "\n".join(lines[i : i + max_lines_after + 1]) for the 1-based line index k
OwnerWindow(ls, k) ==
    join(<<"\n">>, SubSeq(ls, k, IF k + MaxLinesAfter <= Len(ls) THEN k + MaxLinesAfter ELSE Len(ls)))

\* the recovery searching the whole document instead of the block
find_owner_email_in_document(blk) ==
    LET ls == splitlines(t)
        near == {k \in 1..Len(ls) : MentionsOwner(ls[k]) /\ FirstEmail(OwnerWindow(ls, k)) # <<>>}
    IN  IF near # {} THEN FirstEmail(OwnerWindow(ls, Min(near))) ELSE FirstEmail(t)

find_owner_email_in_block(blk) ==
    LET ls == splitlines(blk)
        near == {k \in 1..Len(ls) : MentionsOwner(ls[k]) /\ FirstEmail(OwnerWindow(ls, k)) # <<>>}
    IN  IF near # {} THEN FirstEmail(OwnerWindow(ls, Min(near))) ELSE FirstEmail(blk)

\* the first key of final whose normalized form is "applicationowner", None for none
OwnerKey(fin) ==
    LET ks == {k \in 1..Len(fin) : normalize_key(fin[k][1]) = ApplicationOwner}
    IN  IF ks = {} THEN None ELSE fin[Min(ks)][1]

\* if not text: return {}
ApmEmpty ==
    /\ fn = "extract_apm_from_text" /\ pc = "start"
    /\ text = <<>>
    /\ ret' = <<>>
    /\ pc' = "done"
    /\ UNCHANGED <<args, cdrVars, kvVars, apmVars>>

\* t = text.replace('\r', ''); m = heading_regex.search(t)
ApmLocate ==
    /\ fn = "extract_apm_from_text" /\ pc = "start"
    /\ text # <<>>
    /\ t' = RemoveChar(text, "\r")
    /\ m_end' = HeadingMatchEnd(t')
    /\ block' = None
    /\ IF m_end' # -1
       THEN /\ apm_lines' = splitlines(Slice(t', m_end', Len(t')))
            /\ take' = <<>> /\ blank_count' = 0 /\ n' = 1
            /\ pc' = "collect"
       ELSE /\ UNCHANGED <<apm_lines, take, blank_count, n>>
            /\ pc' = "fallback"
    /\ UNCHANGED <<args, positions, parsed, kvVars, kv, final, ret>>

\* for ln in lines: a blank line
ApmCollectBlank ==
    /\ fn = "extract_apm_from_text" /\ pc = "collect"
    /\ n <= Len(apm_lines)
    /\ IsBlank(apm_lines[n])
    /\ blank_count' = blank_count + 1
    /\ IF blank_count' >= 2 THEN pc' = "join" /\ UNCHANGED n ELSE n' = n + 1 /\ UNCHANGED pc
    /\ UNCHANGED <<args, cdrVars, kvVars, m_end, apm_lines, take, block, kv, final, ret>>

\* for ln in lines: a line that is taken
ApmCollectLine ==
    /\ fn = "extract_apm_from_text" /\ pc = "collect"
    /\ n <= Len(apm_lines)
    /\ ~IsBlank(apm_lines[n])
    /\ blank_count' = 0
    /\ take' = Append(take, apm_lines[n])
    /\ IF Len(take') > MaxTake THEN pc' = "join" /\ UNCHANGED n ELSE n' = n + 1 /\ UNCHANGED pc
    /\ UNCHANGED <<args, cdrVars, kvVars, m_end, apm_lines, block, kv, final, ret>>

\* the loop ran out of lines
ApmCollectEnd ==
    /\ fn = "extract_apm_from_text" /\ pc = "collect"
    /\ n > Len(apm_lines)
    /\ pc' = "join"
    /\ UNCHANGED <<args, cdrVars, kvVars, apmVars, ret>>

\* block = "\n".join(take)
ApmJoin ==
    /\ fn = "extract_apm_from_text" /\ pc = "join"
    /\ block' = join(<<"\n">>, take)
    /\ pc' = "fallback"
    /\ UNCHANGED <<args, cdrVars, kvVars, m_end, apm_lines, n, take, blank_count, kv, final, ret>>

\* the block found after the heading is kept
ApmKeepBlock ==
    /\ fn = "extract_apm_from_text" /\ pc = "fallback"
    /\ ~Falsy(block)
    /\ pc' = "strip"
    /\ UNCHANGED <<args, cdrVars, kvVars, apmVars, ret>>

\* 2) if not block: lines containing known APM keys, with their context
ApmKeywordFallback ==
    /\ fn = "extract_apm_from_text" /\ pc = "fallback"
    /\ Falsy(block)
    /\ ~Falsy(KeywordBlock(block, t, expected_keys))
    /\ block' = KeywordBlock(block, t, expected_keys)
    /\ pc' = "strip"
    /\ UNCHANGED <<args, cdrVars, kvVars, m_end, apm_lines, n, take, blank_count, kv, final, ret>>

\* 3) if still not found, use whole text as last resort
ApmWholeText ==
    /\ fn = "extract_apm_from_text" /\ pc = "fallback"
    /\ Falsy(KeywordBlock(block, t, expected_keys))
    /\ block' = t
    /\ pc' = "strip"
    /\ UNCHANGED <<args, cdrVars, kvVars, m_end, apm_lines, n, take, blank_count, kv, final, ret>>

\* block = re.sub(r"https?://\S+", "", block)
ApmStripUrls ==
    /\ fn = "extract_apm_from_text" /\ pc = "strip"
    /\ block' = StripUrls(block)
    /\ pc' = "extract"
    /\ UNCHANGED <<args, cdrVars, kvVars, m_end, apm_lines, n, take, blank_count, kv, final, ret>>

\* kv = extract_key_values(block, ...) for an empty block: if not text: return {}
ApmExtractEmpty ==
    /\ fn = "extract_apm_from_text" /\ pc = "extract"
    /\ block = <<>>
    /\ kv' = <<>>
    /\ pc' = "clean"
    /\ UNCHANGED <<args, cdrVars, kvVars, m_end, apm_lines, n, take, blank_count, block, final, ret>>

\* kv = extract_key_values(block, expected_keys=expected_keys): the call
ApmExtract ==
    /\ fn = "extract_apm_from_text" /\ pc = "extract"
    /\ block # <<>>
    /\ KvEnter(block, expected_keys)
    /\ pc' = "kv"
    /\ UNCHANGED <<args, cdrVars, apmVars, ret>>

\* cleaned, cleaned_norm_map and final
ApmProject ==
    /\ fn = "extract_apm_from_text" /\ pc = "clean"
    /\ final' = Project(Cleaned(kv, Len(kv)), expected_keys)
    /\ pc' = "owner"
    /\ UNCHANGED <<args, cdrVars, kvVars, m_end, apm_lines, n, take, blank_count, block, kv, ret>>

\* if ao_key and not final.get(ao_key): fill from the block-scoped search
ApmRecoverOwner ==
    /\ fn = "extract_apm_from_text" /\ pc = "owner"
    /\ OwnerKey(final) # None /\ DictGet(final, OwnerKey(final)) = <<>>
    /\ LET owner_email == find_owner_email_in_block(block)
       IN  final' = IF owner_email # <<>> THEN DictPut(final, OwnerKey(final), owner_email)
                    ELSE final
    /\ pc' = "return"
    /\ UNCHANGED <<args, cdrVars, kvVars, m_end, apm_lines, n, take, blank_count, block, kv, ret>>

\* the owner value was parsed directly
ApmKeepOwner ==
    /\ fn = "extract_apm_from_text" /\ pc = "owner"
    /\ ~(OwnerKey(final) # None /\ DictGet(final, OwnerKey(final)) = <<>>)
    /\ pc' = "return"
    /\ UNCHANGED <<args, cdrVars, kvVars, apmVars, ret>>

\* return final
ApmReturn ==
    /\ fn = "extract_apm_from_text" /\ pc = "return"
    /\ ret' = final
    /\ pc' = "done"
    /\ UNCHANGED <<args, cdrVars, kvVars, apmVars>>

NextApm ==
    \/ ApmEmpty \/ ApmLocate
    \/ ApmCollectBlank \/ ApmCollectLine \/ ApmCollectEnd \/ ApmJoin
    \/ ApmKeepBlock \/ ApmKeywordFallback \/ ApmWholeText
    \/ ApmStripUrls \/ ApmExtractEmpty \/ ApmExtract
    \/ KvBody
    \/ ApmProject \/ ApmRecoverOwner \/ ApmKeepOwner \/ ApmReturn


(***************************************************************************)
(* Inputs                                                                  *)
(***************************************************************************)
\* number of fragments of a parse_cdr_text input
MaxFragments == 3

\* number of lines of an extract_key_values input
MaxKvLines == 3

\* number of lines of a composed extract_apm_from_text input
MaxApmLines == 3

\* all sequences over pool of length at most k
SeqsUpTo(pool, k) == UNION {[1..len -> pool] : len \in 0..k}

\* line repeated k times
Repeat(line, k) == [j \in 1..k |-> line]

\* fragments of architecture decision records: headings, separators, content, whitespace
CdrFragments ==
    << <<"P", "u", "r", "p", "o", "s", "e">>,
       <<"D", "e", "c", "i", "s", "i", "o", "n", "s">>,
       <<"D", "e", "c", "i", "s", "i", "o", "n">>,
       <<":", " ">>,
       <<"x">>,
       <<"\n">>,
       <<" ">>,
       <<"\t">>,
       <<"\r">> >>

CdrTexts == {Flatten(fs) : fs \in SeqsUpTo({CdrFragments[k] : k \in 1..Len(CdrFragments)}, MaxFragments)}

\* lines of key/value blocks, one or more for every rule of the cascade
KvLinePool ==
    << <<"S", "e", "r", "v", "i", "c", "e", " ", "o", "f", "f", "e", "r", "i", "n", "g", ":", " ", "A", "W", "S">>,
       <<"S", "e", "r", "v", "i", "c", "e">>,
       <<"S", "e", "r", "v", " ", "A", "W", "S">>,
       <<"j", "a", "n", "e", ".", "d", "o", "e", "@">>,
       <<"e", "x", "a", "m", "p", "l", "e", ".", "c", "o", "m">>,
       <<"s", "e", "r", "v", "i", "c", "e", ".", "i", "o">>,
       <<":", "x", "@">>,
       <<" ", " ">>,
       <<"E", "n", "v", "\t", "m", "e", "@", "c", "o", "r", "p">>,
       <<"x", " ", "y">> >>

KvTexts == {join(<<"\n">>, ls) : ls \in SeqsUpTo({KvLinePool[k] : k \in 1..Len(KvLinePool)}, MaxKvLines)}

K_Service ==
    <<"S", "e", "r", "v", "i", "c", "e">>

K_ServiceOffering ==
    <<"S", "e", "r", "v", "i", "c", "e", " ", "o", "f", "f", "e", "r", "i", "n", "g">>

JaneDoeAt ==
    <<"j", "a", "n", "e", ".", "d", "o", "e", "@">>

ExampleCom ==
    <<"e", "x", "a", "m", "p", "l", "e", ".", "c", "o", "m">>

\* expected_keys arguments: None, and a key with its proper prefix in both orders
KvKeyOptions == {<<>>, <<K_Service, K_ServiceOffering>>, <<K_ServiceOffering, K_Service>>}

AnchorLine ==
    <<"A", "p", "p", "l", "i", "c", "a", "t", "i", "o", "n", " ", "P", "o", "r", "t", "f", "o",
     "l", "i", "o", " ", "M", "a", "n", "a", "g", "e", "m", "e", "n", "t", " ", "D", "e", "t",
     "a", "i", "l", "s">>

OwnerLine ==
    <<"A", "p", "p", "l", "i", "c", "a", "t", "i", "o", "n", " ", "O", "w", "n", "e", "r">>

ContactLine ==
    <<"c", "o", "n", "t", "a", "c", "t", ":", " ", "b", "o", "b", "@", "c", "o", "r", "p", ".",
     "i", "o">>

CcLine ==
    <<"c", "c", ":", " ", "e", "v", "e", "@", "c", "o", "r", "p", ".", "i", "o">>

ApmIdLine ==
    <<"A", "P", "M", " ", "I", "D", ":", " ", "7">>

BobEmail ==
    <<"b", "o", "b", "@", "c", "o", "r", "p", ".", "i", "o">>

\* lines of portfolio sheets
ApmLinePool ==
    << AnchorLine,
       <<>>,
       OwnerLine,
       ContactLine,
       <<"S", "e", "e", " ", "h", "t", "t", "p", "s", ":", "/", "/", "i", "n", "t", "e", "r", "n", "a", "l", "/", "d", "o", "c", " ", "f", "o", "r", " ", "d", "e", "t", "a", "i", "l", "s">>,
       <<"A", "p", "p", "l", "i", "c", "a", "t", "i", "o", "n", " ", "O", "w", "n", "e", "r", ":", " ", "m", "e", "@", "h", "t", "t", "p", ":", "/", "/">>,
       <<"e", "x", "a", "m", "p", "l", "e", ".", "c", "o", "m">>,
       <<"h", "e", "l", "l", "o", " ", "w", "o", "r", "l", "d">> >>

ApmComposedTexts == {join(<<"\n">>, ls) : ls \in SeqsUpTo({ApmLinePool[k] : k \in 1..Len(ApmLinePool)}, MaxApmLines)}

\* the heading followed by k one-character lines
LongSheet(k) == join(<<"\n">>, <<AnchorLine>> \o Repeat(<<"x">>, k))

\* the heading, a contact line, an owner line without a value, k rows and a second contact line
OwnerSheet(k) ==
    join(<<"\n">>, <<AnchorLine, ContactLine, OwnerLine>> \o Repeat(ApmIdLine, k) \o <<CcLine>>)

\* the heading, an owner line without a value, seven rows and a contact line eight lines later
SpecSheet == join(<<"\n">>, <<AnchorLine, OwnerLine>> \o Repeat(ApmIdLine, 7) \o <<ContactLine>>)

ApmTexts ==
    ApmComposedTexts
        \cup {LongSheet(k) : k \in (MaxTake - 1)..(MaxTake + 2)}
        \cup {OwnerSheet(k) : k \in (MaxLinesAfter - 2)..MaxLinesAfter}
        \cup {SpecSheet, <<"\r">>}

Idle ==
    /\ t = <<>> /\ positions = <<>> /\ parsed = <<>>
    /\ lines = <<>> /\ ek_list = <<>> /\ ek_norm = <<>> /\ result = <<>> /\ last_key = None /\ i = 1
    /\ m_end = -1 /\ apm_lines = <<>> /\ n = 1 /\ take = <<>> /\ blank_count = 0
    /\ block = None /\ kv = <<>> /\ final = <<>>
    /\ ret = None
    /\ pc = "start"

\* a call parse_cdr_text(text)
InitCdr ==
    /\ fn = "parse_cdr_text"
    /\ text \in CdrTexts
    /\ expected_keys = <<>>
    /\ Idle

\* a call extract_key_values(text, expected_keys)
InitKv ==
    /\ fn = "extract_key_values"
    /\ text \in KvTexts
    /\ expected_keys \in KvKeyOptions
    /\ Idle

\* a call extract_apm_from_text(text); expected_keys is its local list
InitApm ==
    /\ fn = "extract_apm_from_text"
    /\ text \in ApmTexts
    /\ expected_keys = APM_EXPECTED_KEYS
    /\ Idle

Init == InitCdr \/ InitKv \/ InitApm

Next == NextCdr \/ NextKv \/ NextApm

\* the three entry points, each called on every input
Spec == Init /\ [][Next]_vars

SpecCdr == InitCdr /\ [][NextCdr]_vars

SpecKv == InitKv /\ [][NextKv]_vars

SpecApm == InitApm /\ [][NextApm]_vars

\* the two entry points that turn a text into a map of its own keys
SpecText == (InitCdr \/ InitKv) /\ [][NextCdr \/ NextKv]_vars

(***************************************************************************)
(* Properties                                                              *)
(***************************************************************************)
Returned(f) == fn = f /\ pc = "done"

\* every character is whitespace (true of the empty string)
AllSpace(s) == \A k \in 1..Len(s) : IsSpace(s[k])

\* s has a substring of the form http://... or https://...
HasUrl(s) == \E k \in 1..Len(s) : UrlAt(s, k)

\* C1: for every input text, the map returned by extract_apm_from_text has exactly
\* the expected keys as its keys, in the expected-key list's order.
C1_ExactlyExpectedKeys ==
    Returned("extract_apm_from_text") => DictKeys(ret) = APM_EXPECTED_KEYS

\* C2: no key of the map returned by extract_key_values is the empty string.
C2_NoEmptyKey ==
    Returned("extract_key_values") => \A k \in 1..Len(ret) : ret[k][1] # <<>>

\* C3 as stated: for every empty or all-whitespace input, parse_cdr_text and
\* extract_key_values each return an empty map.
C3_BlankGivesEmptyMap ==
    (pc = "done" /\ fn \in {"parse_cdr_text", "extract_key_values"} /\ AllSpace(text))
        => ret = <<>>

\* C3 amended: for the empty input both functions return an empty map; for a
\* non-empty all-whitespace input extract_key_values returns an empty map and
\* parse_cdr_text returns the single entry "body" holding the text without its
\* carriage returns.
C3_BlankGivesEmptyMapOrBody ==
    (pc = "done" /\ fn \in {"parse_cdr_text", "extract_key_values"} /\ AllSpace(text))
        => IF fn = "extract_key_values" \/ text = <<>>
           THEN ret = <<>>
           ELSE ret = << <<Body, RemoveChar(text, "\r")>> >>

\* C3 witness: parse_cdr_text has returned for a non-empty input of whitespace only,
\* with a carriage return in it.
C3_Witness ==
    /\ Returned("parse_cdr_text")
    /\ text # <<>> /\ AllSpace(text) /\ contains(text, <<"\r">>) /\ Len(text) > 1
    /\ Len(ret) = 1

\* C4: no value of the map returned by extract_apm_from_text contains a substring of
\* the form http://... or https://...
C4_NoUrlInValues ==
    Returned("extract_apm_from_text") => \A k \in 1..Len(ret) : ~HasUrl(ret[k][2])

\* the "Application Owner" field of the canonical output
OwnerField == APM_EXPECTED_KEYS[9]

\* the owner value right after projection, before the recovery step
ProjectedOwner == DictGet(Project(Cleaned(kv, Len(kv)), expected_keys), OwnerField)

\* s has the shape local-part@domain.tld
IsEmailShaped(s) ==
    \E j \in 2..Len(s) : \E k \in (j + 2)..(Len(s) - 2) :
        /\ s[j] = "@" /\ s[k] = "."
        /\ \A x \in 1..(j - 1) : IsEmailChar(s[x])
        /\ \A x \in (j + 1)..(k - 1) : IsEmailChar(s[x])
        /\ \A x \in (k + 1)..Len(s) : IsAlpha(s[x])

\* the email the recovery is to pick from a block: the first one in the window made of
\* the earliest owner line that has one within itself and its 20 following lines,
\* otherwise the first one anywhere in the block
BlockOwnerEmail(blk) ==
    LET ls == splitlines(blk)
        window(k) == join(<<"\n">>, [x \in 1..(IF k + 20 <= Len(ls) THEN 21 ELSE Len(ls) - k + 1)
                                        |-> ls[k + x - 1]])
        near == {k \in 1..Len(ls) : MentionsOwner(ls[k]) /\ FirstEmail(window(k)) # <<>>}
    IN  IF near # {} THEN FirstEmail(window(Min(near))) ELSE FirstEmail(blk)

IsProperPrefix(a, b) == Len(a) < Len(b) /\ startswith(b, a)

\* the step that processes lines[i]
LineStep == pc = "kv" /\ i <= Len(lines) /\ i' = i + 1

C6_Step ==
    \A a, b \in 1..Len(expected_keys) :
        ( /\ LineStep
          /\ IsProperPrefix(expected_keys[a], expected_keys[b])
          /\ startswith(lower(lines[i]), lower(expected_keys[b]))
          /\ \A c \in 1..Len(expected_keys) :
                (c # b /\ Len(expected_keys[c]) >= Len(expected_keys[b]))
                    => ~startswith(lower(lines[i]), lower(expected_keys[c])) )
        => /\ last_key' = expected_keys[b]
           /\ DictHas(result', expected_keys[b])
           /\ DictHas(result', expected_keys[a]) = DictHas(result, expected_keys[a])
           /\ DictHas(result, expected_keys[a])
                => DictGet(result', expected_keys[a]) = DictGet(result, expected_keys[a])

ActiveValueEndsInAt ==
    /\ last_key # None /\ DictHas(result, last_key)
    /\ LET prev == DictGet(result, last_key)
       IN  prev # <<>> /\ prev[Len(prev)] = "@"

\* lines[i] is a bare domain that follows an active value ending in "@"
DomainAfterAt == LineStep /\ ActiveValueEndsInAt /\ IsBareDomain(lines[i])

\* lines[i] is concatenated to the active value with no separator, creating no key and
\* keeping the active key
Stitched ==
    /\ result' = DictPut(result, last_key, DictGet(result, last_key) \o lines[i])
    /\ DictKeys(result') = DictKeys(result)
    /\ last_key' = last_key

\* lines[i] is kept whole under the next unused text_N key, which becomes the active key
KeptAsFreeText ==
    /\ ~DictHas(result, last_key')
    /\ result' = DictPut(result, last_key', lines[i])
    /\ \E idx \in 0..Len(result) : last_key' = TextBase \o <<"_">> \o Decimal(idx)

\* C7 as stated: when the active key's value ends in "@" and the next line is a bare
\* domain, the line is concatenated to that value with no separator; no key is
\* created and the active key does not change.
C7_DomainAlwaysStitched == [][DomainAfterAt => Stitched]_vars

\* C7 amended: the same for a bare domain line that no expected key starts (the
\* expected-key prefix rule runs first and takes a line such as "service.io" for the key
\* "Service") and an active key that is not the empty string; under the empty key the
\* line is not stitched and is kept under a new text_N key.
C7_DomainStitchedUnlessKeyed ==
    [][(DomainAfterAt /\ PrefixKey(lines[i], ek_norm) = 0)
            => IF last_key # <<>> THEN Stitched ELSE KeptAsFreeText]_vars

\* C7 witness: "jane.doe@" then "example.com" came out as one value under one key.
C7_Witness ==
    /\ Returned("extract_key_values")
    /\ Len(lines) = 2 /\ lines[2] = ExampleCom
    /\ Len(ret) = 1 /\ ret[1][2] = JaneDoeAt \o ExampleCom

\* the offset of the first occurrence of each heading of the text
FoundHeadings(tt) == {k \in 1..Len(HEADING_KEYWORDS) : contains(tt, HEADING_KEYWORDS[k])}

\* C8: for every non-empty text and every known heading, the output of parse_cdr_text
\* has the heading as a key iff the heading occurs literally in the text, and a present
\* heading's content starts right after its first occurrence and ends at the next found
\* heading offset or the end of the text.
C8_HeadingKeyIffOccurs ==
    (Returned("parse_cdr_text") /\ text # <<>>)
        => \A k \in 1..Len(HEADING_KEYWORDS) :
            LET h == HEADING_KEYWORDS[k]
                start == find(t, h) + Len(h)
                later == {find(t, HEADING_KEYWORDS[g]) : g \in FoundHeadings(t)}
                            \cap (find(t, h) + 1)..Len(t)
                end == IF later = {} THEN Len(t) ELSE Min(later)
            IN  /\ DictHas(ret, h) <=> contains(text, h)
                /\ DictHas(ret, h)
                    => DictGet(ret, h)
                        = StripLeading(strip(Slice(t, start, end)), {":", "-"} \cup Whitespace)

\* C9: whenever the anchor heading matches, the block handed on to URL stripping and
\* the extractor consists only of the lines collected after the match: the keyword
\* and whole-document fallbacks are used only if the anchor is absent.
C9_FallbackOnlyWithoutAnchor ==
    (fn = "extract_apm_from_text" /\ pc = "strip" /\ m_end # -1)
        => block = join(<<"\n">>, take)

\* the non-blank lines before the first two consecutive blank lines
LinesBeforeDoubleBlank(ls) ==
    LET stops == {k \in 1..(Len(ls) - 1) : IsBlank(ls[k]) /\ IsBlank(ls[k + 1])}
        d == IF stops = {} THEN Len(ls) + 1 ELSE Min(stops)
    IN  Filter(SubSeq(ls, 1, d - 1), [k \in 1..(d - 1) |-> ~IsBlank(ls[k])])

\* C10: on the primary path the collected block has at most 200 lines, none of them
\* blank, and collection stops at the first run of two consecutive blank lines.
C10_AtMost200Lines ==
    (fn = "extract_apm_from_text" /\ pc = "join")
        => /\ Len(take) <= 200
           /\ \A k \in 1..Len(take) : ~IsBlank(take[k])
           /\ Len(take) <= Len(LinesBeforeDoubleBlank(apm_lines))
           /\ take = SubSeq(LinesBeforeDoubleBlank(apm_lines), 1, Len(take))
           /\ Len(LinesBeforeDoubleBlank(apm_lines)) <= 200
                => take = LinesBeforeDoubleBlank(apm_lines)

\* the line is a domain fragment: one token of domain characters, such as "corp",
\* ".com" or "example.com"
LooksLikeDomain(line) == line # <<>> /\ \A k \in 1..Len(line) : IsEmailChar(line[k])

\* lines[i] is handled by continuation stitching and the active value is not empty
StitchOntoValue ==
    /\ LineStep
    /\ LineRule(result, last_key, lines[i], ek_list, ek_norm) = "stitch"
    /\ DictGet(result, last_key) # <<>>

\* C11: when continuation stitching appends a line to a non-empty previous value, the
\* line is concatenated with no separator only if the previous value ends with an "@"
\* fragment with no "." after it and the line looks like a domain continuation, or the
\* line is a bare domain and the previous value contains "@"; every other stitched line
\* is joined to the previous value with exactly one space.
C11_NoSeparatorOnlyForDomains ==
    [][StitchOntoValue =>
        LET prev == DictGet(result, last_key)
            line == lines[i]
            domain == \/ EndsWithEmailFragment(prev) /\ LooksLikeDomain(line)
                      \/ IsBareDomain(line) /\ contains(prev, <<"@">>)
        IN  /\ last_key' = last_key
            /\ DictGet(result', last_key) \in {prev \o line, prev \o <<" ">> \o line}
            /\ ~domain => DictGet(result', last_key) = prev \o <<" ">> \o line]_vars
====
